---- MODULE Spec2Model ----
(***************************************************************************)
(* The pendingTransactions custom store of the bridge UI                   *)
(* (packages/bridge-ui/src/store/transactions.ts).                         *)
(*                                                                         *)
(* The store holds an ordered list of pending transactions.  add(tx,       *)
(* signer) appends tx, records the index it was appended at, asks the      *)
(* signer's provider to wait for the transaction, and returns the promise  *)
(* of a Deferred.  The provider's promise is settled later; its reaction   *)
(* (the .then handler on a receipt, the .catch handler on an error) runs   *)
(* later still, as one uninterrupted job of the single-threaded event      *)
(* loop.  Every action below is one such job.                              *)
(***************************************************************************)
EXTENDS Integers, Sequences, FiniteSets

VARIABLES
    txs,                    \* the store's value: the list of pending transactions (hashes)
    tx,                     \* tx[s]: the transaction given to the s-th call of add
    idxAppendedTransaction, \* idxAppendedTransaction[s]: the 0-based index recorded by that call
    watch,                  \* watch[s]: the promise returned by waitForTransaction for that call
    reacted,                \* reacted[s]: the .then/.catch reaction of watch[s] has run
    deferred,               \* deferred[s]: the Deferred whose promise that call returned
    calls,                  \* calls[s]: the calls made for that call of add (waitForTransaction,
                            \* update, resolve, reject), in the order the program made them
    disturbed,              \* history, kept by SpecTrack only: disturbed[s] tells how low, relative
                            \* to the index recorded for s, other submissions' handlers have deleted
                            \* an entry between the add of s and the handling of its receipt
    observed                \* kept by SpecSub only: observed[k] is the sequence of values the
                            \* store has handed to subscriber k, for every k subscribed

vars == <<txs, tx, idxAppendedTransaction, watch, reacted, deferred, calls, disturbed, observed>>

(***************************************************************************)
(* Bounds of the model.                                                    *)
(***************************************************************************)
\* Number of calls of add.  Every call tracks a transaction not tracked before;
\* transactions are named by their hash, and hashes are numbered in the order of
\* submission (the s-th call of add tracks hash s).
MaxSubs == 3

Hashes == 1..MaxSubs

\* receipt.status as delivered by the provider; 1 denotes success.
Statuses == {0, 1}

\* error.code of a rejected watch; TIMEOUT is ethers.errors.TIMEOUT.
TIMEOUT == "TIMEOUT"
ErrorCodes == {TIMEOUT, "SERVER_ERROR"}

\* Error messages built by the handlers.
MsgReceiptFailed == "Transaction failed"
MsgTimeout == "timeout while waiting for transaction to be mined"
MsgWatchFailed == "transaction failed"

\* What a promise is settled with: nothing yet, a receipt, or an error.
NoValue == [kind |-> "none", transactionHash |-> 0, status |-> 0, code |-> ""]
Receipt(h, st) == [kind |-> "receipt", transactionHash |-> h, status |-> st, code |-> ""]
WatchError(c) == [kind |-> "error", transactionHash |-> 0, status |-> 0, code |-> c]

PendingPromise == [state |-> "pending", value |-> NoValue]
PendingDeferred == [state |-> "pending", message |-> "", value |-> NoValue]

\* The submissions made so far.
Subs == 1..Len(tx)

(***************************************************************************)
(* Pure helpers.                                                           *)
(***************************************************************************)
\* [tx, ...txs]: the new transaction put first instead of last.
AppendTxFront(list, t) == <<t>> \o list
\* [...txs, tx]
AppendTx(list, t) == Append(list, t)

\* newPendingTransactions.length, the "- 1" lost.
LastIndexOneBased(list) == Len(list)
\* newPendingTransactions.length - 1
LastIndex(list) == Len(list) - 1

\* splice(start, 2): two entries deleted instead of one.
SpliceTwo(list, start) ==
    IF start < Len(list)
    THEN SubSeq(list, 1, start) \o SubSeq(list, start + 3, Len(list))
    ELSE list

\* A start past the end taken for the last entry: splice(min(start, length - 1), 1).
SpliceClamped(list, start) ==
    IF Len(list) = 0 THEN list
    ELSE LET at == IF start < Len(list) THEN start ELSE Len(list) - 1
         IN  SubSeq(list, 1, at) \o SubSeq(list, at + 2, Len(list))

\* const copy = [...list]; copy.splice(start, 1); return copy   (start >= 0, 0-based)
Splice(list, start) ==
    IF start < Len(list)
    THEN SubSeq(list, 1, start) \o SubSeq(list, start + 2, Len(list))
    ELSE list

\* Deferred.resolve / Deferred.reject: a promise is settled once, later calls are ignored.
DeferredResolve(d, v) ==
    IF d.state = "pending" THEN [state |-> "resolved", message |-> "", value |-> v] ELSE d
DeferredReject(d, msg, cause) ==
    IF d.state = "pending" THEN [state |-> "rejected", message |-> msg, value |-> cause] ELSE d

(***************************************************************************)
(* Initial state: module load.                                             *)
(***************************************************************************)
Init ==
    /\ txs = <<>>
    /\ tx = <<>>
    /\ idxAppendedTransaction = <<>>
    /\ watch = <<>>
    /\ reacted = <<>>
    /\ deferred = <<>>
    /\ calls = <<>>
    /\ disturbed = <<>>
    /\ observed = [k \in {} |-> <<>>]

(***************************************************************************)
(* pendingTransactions.add(tx, signer), for a transaction with hash h.     *)
(***************************************************************************)
Add(h) ==
    /\ h = Len(tx) + 1
    /\ LET newPendingTransactions == AppendTx(txs, h)
       IN  /\ txs' = newPendingTransactions
           /\ idxAppendedTransaction' =
                  Append(idxAppendedTransaction, LastIndex(newPendingTransactions))
    /\ tx' = Append(tx, h)
    /\ watch' = Append(watch, PendingPromise)
    /\ reacted' = Append(reacted, FALSE)
    /\ deferred' = Append(deferred, PendingDeferred)
    /\ calls' = Append(calls, <<"waitForTransaction", "update(append)">>)

(***************************************************************************)
(* The provider settles the promise of waitForTransaction(tx.hash, 1, ..). *)
(***************************************************************************)
WatchFulfil(s, st) ==
    /\ watch[s].state = "pending"
    /\ watch' = [watch EXCEPT ![s] = [state |-> "fulfilled", value |-> Receipt(tx[s], st)]]
    /\ UNCHANGED <<txs, tx, idxAppendedTransaction, reacted, deferred, calls>>

WatchFail(s, c) ==
    /\ watch[s].state = "pending"
    /\ watch' = [watch EXCEPT ![s] = [state |-> "rejected", value |-> WatchError(c)]]
    /\ UNCHANGED <<txs, tx, idxAppendedTransaction, reacted, deferred, calls>>

(***************************************************************************)
(* .then((receipt) => { update(splice); resolve or reject })               *)
(***************************************************************************)
\* The handler with the else of "if (receipt.status === 1)" lost: a successful
\* receipt resolves and then rejects.
ThenHandlerNoElse(s) ==
    /\ watch[s].state = "fulfilled"
    /\ ~reacted[s]
    /\ LET receipt == watch[s].value
       IN  /\ txs' = Splice(txs, idxAppendedTransaction[s])
           /\ IF receipt.status = 1
              THEN /\ deferred' = [deferred EXCEPT ![s] =
                          DeferredReject(DeferredResolve(@, receipt), MsgReceiptFailed, receipt)]
                   /\ calls' = [calls EXCEPT ![s] = @ \o <<"update(splice)", "resolve", "reject">>]
              ELSE /\ deferred' = [deferred EXCEPT ![s] =
                                      DeferredReject(@, MsgReceiptFailed, receipt)]
                   /\ calls' = [calls EXCEPT ![s] = @ \o <<"update(splice)", "reject">>]
    /\ reacted' = [reacted EXCEPT ![s] = TRUE]
    /\ UNCHANGED <<tx, idxAppendedTransaction, watch>>

\* The handler with removal by hash instead of by recorded index:
\* txs.filter((t) => t.hash !== tx.hash).
ThenHandlerByHash(s) ==
    /\ watch[s].state = "fulfilled"
    /\ ~reacted[s]
    /\ LET receipt == watch[s].value
       IN  /\ txs' = SelectSeq(txs, LAMBDA h : h # tx[s])
           /\ IF receipt.status = 1
              THEN /\ deferred' = [deferred EXCEPT ![s] = DeferredResolve(@, receipt)]
                   /\ calls' = [calls EXCEPT ![s] = @ \o <<"update(splice)", "resolve">>]
              ELSE /\ deferred' = [deferred EXCEPT ![s] =
                                      DeferredReject(@, MsgReceiptFailed, receipt)]
                   /\ calls' = [calls EXCEPT ![s] = @ \o <<"update(splice)", "reject">>]
    /\ reacted' = [reacted EXCEPT ![s] = TRUE]
    /\ UNCHANGED <<tx, idxAppendedTransaction, watch>>

\* The handler with the rejection of a failed receipt lost: only a successful
\* receipt completes the future.
ThenHandlerNoReject(s) ==
    /\ watch[s].state = "fulfilled"
    /\ ~reacted[s]
    /\ LET receipt == watch[s].value
       IN  /\ txs' = Splice(txs, idxAppendedTransaction[s])
           /\ IF receipt.status = 1
              THEN /\ deferred' = [deferred EXCEPT ![s] = DeferredResolve(@, receipt)]
                   /\ calls' = [calls EXCEPT ![s] = @ \o <<"update(splice)", "resolve">>]
              ELSE /\ deferred' = deferred
                   /\ calls' = [calls EXCEPT ![s] = @ \o <<"update(splice)">>]
    /\ reacted' = [reacted EXCEPT ![s] = TRUE]
    /\ UNCHANGED <<tx, idxAppendedTransaction, watch>>

\* The handler with the removal made on the store's array in place, without a
\* call of update: the store publishes nothing.
ThenHandlerInPlace(s) ==
    /\ watch[s].state = "fulfilled"
    /\ ~reacted[s]
    /\ LET receipt == watch[s].value
       IN  /\ txs' = Splice(txs, idxAppendedTransaction[s])
           /\ IF receipt.status = 1
              THEN /\ deferred' = [deferred EXCEPT ![s] = DeferredResolve(@, receipt)]
                   /\ calls' = [calls EXCEPT ![s] = Append(@, "resolve")]
              ELSE /\ deferred' = [deferred EXCEPT ![s] =
                                      DeferredReject(@, MsgReceiptFailed, receipt)]
                   /\ calls' = [calls EXCEPT ![s] = Append(@, "reject")]
    /\ reacted' = [reacted EXCEPT ![s] = TRUE]
    /\ UNCHANGED <<tx, idxAppendedTransaction, watch>>

ThenHandler(s) ==
    /\ watch[s].state = "fulfilled"
    /\ ~reacted[s]
    /\ LET receipt == watch[s].value
       IN  /\ txs' = Splice(txs, idxAppendedTransaction[s])
           /\ IF receipt.status = 1
              THEN /\ deferred' = [deferred EXCEPT ![s] = DeferredResolve(@, receipt)]
                   /\ calls' = [calls EXCEPT ![s] = @ \o <<"update(splice)", "resolve">>]
              ELSE /\ deferred' = [deferred EXCEPT ![s] =
                                      DeferredReject(@, MsgReceiptFailed, receipt)]
                   /\ calls' = [calls EXCEPT ![s] = @ \o <<"update(splice)", "reject">>]
    /\ reacted' = [reacted EXCEPT ![s] = TRUE]
    /\ UNCHANGED <<tx, idxAppendedTransaction, watch>>

(***************************************************************************)
(* .catch((error) => { reject(timeout) or reject(transaction failed) })    *)
(***************************************************************************)
\* The handler without the TIMEOUT classification: every error is reported as
\* 'transaction failed'.
CatchHandlerNoTimeout(s) ==
    /\ watch[s].state = "rejected"
    /\ ~reacted[s]
    /\ deferred' = [deferred EXCEPT ![s] = DeferredReject(@, MsgWatchFailed, watch[s].value)]
    /\ calls' = [calls EXCEPT ![s] = Append(@, "reject")]
    /\ reacted' = [reacted EXCEPT ![s] = TRUE]
    /\ UNCHANGED <<txs, tx, idxAppendedTransaction, watch>>

\* The handler with the cleanup of the .then handler: it removes the entry at the
\* recorded index before rejecting.
CatchHandlerRemoves(s) ==
    /\ watch[s].state = "rejected"
    /\ ~reacted[s]
    /\ txs' = Splice(txs, idxAppendedTransaction[s])
    /\ LET error == watch[s].value
       IN  IF error.code = TIMEOUT
           THEN deferred' = [deferred EXCEPT ![s] = DeferredReject(@, MsgTimeout, error)]
           ELSE deferred' = [deferred EXCEPT ![s] = DeferredReject(@, MsgWatchFailed, error)]
    /\ calls' = [calls EXCEPT ![s] = @ \o <<"update(splice)", "reject">>]
    /\ reacted' = [reacted EXCEPT ![s] = TRUE]
    /\ UNCHANGED <<tx, idxAppendedTransaction, watch>>

\* The handler with a retry: on a timeout it starts another watch instead of
\* rejecting.
CatchHandlerRetries(s) ==
    /\ watch[s].state = "rejected"
    /\ ~reacted[s]
    /\ LET error == watch[s].value
       IN  IF error.code = TIMEOUT
           THEN /\ watch' = [watch EXCEPT ![s] = PendingPromise]
                /\ calls' = [calls EXCEPT ![s] = Append(@, "waitForTransaction")]
                /\ UNCHANGED <<deferred, reacted>>
           ELSE /\ deferred' = [deferred EXCEPT ![s] =
                                   DeferredReject(@, MsgWatchFailed, error)]
                /\ calls' = [calls EXCEPT ![s] = Append(@, "reject")]
                /\ reacted' = [reacted EXCEPT ![s] = TRUE]
                /\ UNCHANGED watch
    /\ UNCHANGED <<txs, tx, idxAppendedTransaction>>

CatchHandler(s) ==
    /\ watch[s].state = "rejected"
    /\ ~reacted[s]
    /\ LET error == watch[s].value
       IN  IF error.code = TIMEOUT
           THEN deferred' = [deferred EXCEPT ![s] = DeferredReject(@, MsgTimeout, error)]
           ELSE deferred' = [deferred EXCEPT ![s] = DeferredReject(@, MsgWatchFailed, error)]
    /\ calls' = [calls EXCEPT ![s] = Append(@, "reject")]
    /\ reacted' = [reacted EXCEPT ![s] = TRUE]
    /\ UNCHANGED <<txs, tx, idxAppendedTransaction, watch>>

(***************************************************************************)
(* pendingTransactions.set(list): the writable store's own set.            *)
(***************************************************************************)
\* The lists handed to set: the empty list, and a list of two entries that add
\* also tracks, in another order than add appends them.
SetLists == {<<>>, <<2, 1>>}

\* A set that also gives up the submissions being tracked: it rejects every
\* future that is still pending.
SetCancels(list) ==
    /\ txs' = list
    /\ deferred' = [s \in Subs |-> DeferredReject(deferred[s], MsgWatchFailed, NoValue)]
    /\ UNCHANGED <<tx, idxAppendedTransaction, watch, reacted, calls>>

Set(list) ==
    /\ txs' = list
    /\ UNCHANGED <<tx, idxAppendedTransaction, watch, reacted, deferred, calls>>

(***************************************************************************)
(* Specifications.  Spec: add and the watch callbacks.  SpecSet: the same  *)
(* with callers of set.                                                    *)
(***************************************************************************)
\* The actions above leave the history variable and the subscribers to the
\* specification.
NoHistory == UNCHANGED <<disturbed, observed>>

Next ==
    \/ \E h \in Hashes : Add(h) /\ NoHistory
    \/ \E s \in Subs, st \in Statuses : WatchFulfil(s, st) /\ NoHistory
    \/ \E s \in Subs, c \in ErrorCodes : WatchFail(s, c) /\ NoHistory
    \/ \E s \in Subs : ThenHandler(s) /\ NoHistory
    \/ \E s \in Subs : CatchHandler(s) /\ NoHistory

Spec == Init /\ [][Next]_vars

NextSet ==
    \/ Next
    \/ \E list \in SetLists : Set(list) /\ NoHistory

SpecSet == Init /\ [][NextSet]_vars

\* The provider settles every watch it started (with a receipt, or with an error
\* once its timeout has passed), and the event loop runs every reaction that is
\* ready.
WatchSettles(s) ==
    /\ s \in Subs
    /\ \/ \E st \in Statuses : WatchFulfil(s, st)
       \/ \E c \in ErrorCodes : WatchFail(s, c)
    /\ NoHistory

Reaction(s) ==
    /\ s \in Subs
    /\ (ThenHandler(s) \/ CatchHandler(s))
    /\ NoHistory

Fairness ==
    \A s \in 1..MaxSubs : WF_vars(WatchSettles(s)) /\ WF_vars(Reaction(s))

\* The fair specification keeps one caller of set, set([]).
NextFair ==
    \/ Next
    \/ Set(<<>>) /\ NoHistory

SpecFair == Init /\ [][NextFair]_vars /\ Fairness

(***************************************************************************)
(* SpecTrack: Spec with the history variable kept.  A handler that deletes *)
(* an entry at position p marks every other submission not yet handled:    *)
(* "below" if p is lower than its recorded index, "at" if p is its         *)
(* recorded index.                                                         *)
(***************************************************************************)
Track ==
    IF Len(tx') = Len(tx) + 1
    THEN disturbed' = Append(disturbed, "none")
    ELSE IF \E s \in Subs : ~reacted[s] /\ reacted'[s] /\ Len(txs') < Len(txs)
    THEN LET s == CHOOSE r \in Subs : ~reacted[r] /\ reacted'[r]
             p == idxAppendedTransaction[s]
         IN  disturbed' =
                 [r \in Subs |->
                     IF r = s \/ reacted[r] THEN disturbed[r]
                     ELSE IF p < idxAppendedTransaction[r] THEN "below"
                     ELSE IF p = idxAppendedTransaction[r] /\ disturbed[r] = "none" THEN "at"
                     ELSE disturbed[r]]
    ELSE disturbed' = disturbed

NextTrack ==
    \/ \E h \in Hashes : Add(h) /\ Track /\ UNCHANGED observed
    \/ \E s \in Subs, st \in Statuses : WatchFulfil(s, st) /\ Track /\ UNCHANGED observed
    \/ \E s \in Subs, c \in ErrorCodes : WatchFail(s, c) /\ Track /\ UNCHANGED observed
    \/ \E s \in Subs : ThenHandler(s) /\ Track /\ UNCHANGED observed
    \/ \E s \in Subs : CatchHandler(s) /\ Track /\ UNCHANGED observed

SpecTrack == Init /\ [][NextTrack]_vars

(***************************************************************************)
(* SpecSub: add, the callbacks and set([]) with subscribers of the store.  *)
(* subscribe(run) hands the current value to run at once; every set of the *)
(* writable store, and so every update, hands the new value to every       *)
(* subscriber, in the order the calls are made.  To keep the subscribers'  *)
(* sequences short, SpecSub makes one call of add fewer than Spec and      *)
(* calls set([]) on a collection that is not empty only.                   *)
(***************************************************************************)
Subscribers == {"k1", "k2"}
HashesSub == 1..(MaxSubs - 1)

Subscribe(k) ==
    /\ k \notin DOMAIN observed
    /\ observed' = [j \in DOMAIN observed \cup {k} |->
                        IF j = k THEN <<txs>> ELSE observed[j]]
    /\ UNCHANGED <<txs, tx, idxAppendedTransaction, watch, reacted, deferred, calls,
                   disturbed>>

Notify == observed' = [k \in DOMAIN observed |-> Append(observed[k], txs')]

\* The update calls made so far for a submission.
UpdateCalls(c) ==
    Cardinality({i \in 1..Len(c) : c[i] \in {"update(append)", "update(splice)"}})

\* The step has called update.
UpdateCalled ==
    \E s \in 1..Len(calls') :
        UpdateCalls(calls'[s]) > (IF s \in Subs THEN UpdateCalls(calls[s]) ELSE 0)

NotifyOnUpdate ==
    /\ IF UpdateCalled THEN Notify ELSE UNCHANGED observed
    /\ UNCHANGED disturbed

NextSub ==
    \/ \E h \in HashesSub : Add(h) /\ NotifyOnUpdate
    \/ \E s \in Subs, st \in Statuses : WatchFulfil(s, st) /\ NotifyOnUpdate
    \/ \E s \in Subs, c \in ErrorCodes : WatchFail(s, c) /\ NotifyOnUpdate
    \/ \E s \in Subs : ThenHandler(s) /\ NotifyOnUpdate
    \/ \E s \in Subs : CatchHandler(s) /\ NotifyOnUpdate
    \/ /\ txs # <<>>
       /\ Set(<<>>) /\ Notify /\ UNCHANGED disturbed
    \/ \E k \in Subscribers : Subscribe(k)

SpecSub == Init /\ [][NextSub]_vars

(***************************************************************************)
(* Steps, as seen from two consecutive states.                             *)
(***************************************************************************)
\* The step is a call of add (it is the only step that creates a submission).
IsAddStep == Len(tx') = Len(tx) + 1
\* The step runs the .then handler of submission s.
IsThenStep(s) == watch[s].state = "fulfilled" /\ ~reacted[s] /\ reacted'[s]
\* The step runs the .catch handler of submission s.
IsCatchStep(s) == watch[s].state = "rejected" /\ ~reacted[s] /\ reacted'[s]

\* h is an entry of the list.
Member(list, h) == \E i \in 1..Len(list) : list[i] = h

(***************************************************************************)
(* C1: when add(tx, signer) returns, the published collection is the       *)
(* previous collection with tx appended as its last element (one longer,   *)
(* the earlier entries unchanged and in order), and no watch callback of   *)
(* this or any other submission has run in between: the new submission's   *)
(* watch and future are pending and every other submission's are as they   *)
(* were.  Checked with callers of set, so for any previous collection.     *)
(***************************************************************************)
C1_AddAppendsSynchronously ==
    [][IsAddStep =>
        LET s == Len(tx')
        IN  /\ Len(txs') = Len(txs) + 1
            /\ SubSeq(txs', 1, Len(txs)) = txs
            /\ txs'[Len(txs')] = tx'[s]
            /\ watch'[s].state = "pending"
            /\ ~reacted'[s]
            /\ deferred'[s].state = "pending"
            /\ \A r \in Subs : /\ watch'[r] = watch[r]
                               /\ reacted'[r] = reacted[r]
                               /\ deferred'[r] = deferred[r]]_vars

\* add has just returned on a collection that held another entry, after the
\* callback of an earlier submission ran.
C1_Witness ==
    /\ Len(tx) >= 2
    /\ Len(txs) >= 2
    /\ txs[Len(txs)] = tx[Len(tx)]
    /\ calls[Len(tx)] = <<"waitForTransaction", "update(append)">>
    /\ \E r \in Subs : reacted[r]

(***************************************************************************)
(* C2: handling a receipt with status 1 shortens the collection by exactly *)
(* one and resolves the returned future with that receipt, under any       *)
(* interleaving with other submissions.                                    *)
(***************************************************************************)
C2_SuccessReceiptShortensByOne ==
    [][\A s \in Subs :
        (IsThenStep(s) /\ watch[s].value.status = 1) =>
            /\ Len(txs') = Len(txs) - 1
            /\ deferred'[s] =
                   [state |-> "resolved", message |-> "", value |-> watch[s].value]]_vars

(***************************************************************************)
(* C3: handling a receipt with a status other than 1 rejects the returned  *)
(* future with a 'transaction failed' error whose cause is that receipt    *)
(* and shortens the collection by exactly one, under any interleaving.     *)
(***************************************************************************)
C3_FailedReceiptShortensByOne ==
    [][\A s \in Subs :
        (IsThenStep(s) /\ watch[s].value.status # 1) =>
            /\ Len(txs') = Len(txs) - 1
            /\ deferred'[s] =
                   [state |-> "rejected", message |-> MsgReceiptFailed,
                    value |-> watch[s].value]]_vars

(***************************************************************************)
(* C4: every transaction submitted with add whose watch has neither        *)
(* delivered a receipt nor failed is a member of the collection.           *)
(***************************************************************************)
C4_PendingIsMember ==
    \A s \in Subs : watch[s].state = "pending" => Member(txs, tx[s])

(***************************************************************************)
(* C5: a tracked transaction is removed exactly once, when its terminal    *)
(* outcome (receipt, failure or timeout) is handled: it is in the          *)
(* collection until then and not in it afterwards.                         *)
(***************************************************************************)
C5_RemovedExactlyWhenHandled ==
    \A s \in Subs : reacted[s] <=> ~Member(txs, tx[s])

(***************************************************************************)
(* C6: the future returned by add is pending when add returns and is       *)
(* completed at most once: the handlers call resolve or reject at most     *)
(* once for it, once it is completed no later step changes it, and its     *)
(* outcome is that of exactly one of the four branches.                    *)
(***************************************************************************)
CompletionCalls(c) == Cardinality({i \in 1..Len(c) : c[i] \in {"resolve", "reject"}})

\* The branches whose outcome the completed future d of a watch w carries.
DecidingBranches(d, w) ==
    {b \in {"resolve-with-receipt", "reject-failed-receipt", "reject-timeout",
            "reject-other-error"} :
        \/ /\ b = "resolve-with-receipt"
           /\ w.state = "fulfilled" /\ w.value.status = 1
           /\ d = [state |-> "resolved", message |-> "", value |-> w.value]
        \/ /\ b = "reject-failed-receipt"
           /\ w.state = "fulfilled" /\ w.value.status # 1
           /\ d = [state |-> "rejected", message |-> MsgReceiptFailed, value |-> w.value]
        \/ /\ b = "reject-timeout"
           /\ w.state = "rejected" /\ w.value.code = TIMEOUT
           /\ d = [state |-> "rejected", message |-> MsgTimeout, value |-> w.value]
        \/ /\ b = "reject-other-error"
           /\ w.state = "rejected" /\ w.value.code # TIMEOUT
           /\ d = [state |-> "rejected", message |-> MsgWatchFailed, value |-> w.value]}

C6_CompletedAtMostOnce ==
    [][\A s \in 1..Len(tx') :
        /\ (IsAddStep /\ s = Len(tx')) => deferred'[s].state = "pending"
        /\ CompletionCalls(calls'[s]) <= 1
        /\ (deferred'[s].state = "pending") <=> (CompletionCalls(calls'[s]) = 0)
        /\ deferred'[s].state # "pending" =>
               Cardinality(DecidingBranches(deferred'[s], watch'[s])) = 1
        /\ (s \in Subs /\ deferred[s].state # "pending") =>
               (deferred'[s] = deferred[s] /\ calls'[s] = calls[s])]_vars

\* One future was resolved and another rejected, and a later call of add has
\* returned a pending one.
C6_Witness ==
    /\ \E s \in Subs : deferred[s].state = "resolved"
    /\ \E s \in Subs : deferred[s].state = "rejected"
    /\ \E s \in Subs : deferred[s].state = "pending" /\ \E r \in 1..(s - 1) : reacted[r]

(***************************************************************************)
(* C7: when the watch fails, the future is rejected and never resolved:    *)
(* with the timeout error if the error's code is TIMEOUT, with the generic *)
(* 'transaction failed' error otherwise, the cause being the original      *)
(* error in both cases.                                                    *)
(***************************************************************************)
C7_WatchFailureRejects ==
    \A s \in Subs :
        (watch[s].state = "rejected" /\ reacted[s]) =>
            /\ deferred[s] =
                   [state |-> "rejected",
                    message |-> IF watch[s].value.code = TIMEOUT
                                THEN MsgTimeout ELSE MsgWatchFailed,
                    value |-> watch[s].value]
            /\ \A i \in 1..Len(calls[s]) : calls[s][i] # "resolve"

\* A timeout and another watch error have both been handled.
C7_Witness ==
    /\ \E s \in Subs : /\ reacted[s] /\ watch[s].state = "rejected"
                       /\ watch[s].value.code = TIMEOUT
    /\ \E s \in Subs : /\ reacted[s] /\ watch[s].state = "rejected"
                       /\ watch[s].value.code # TIMEOUT

(***************************************************************************)
(* C8: handling a watch failure leaves the collection as it was and makes  *)
(* no update call (no subscriber is notified): the only call is reject.    *)
(***************************************************************************)
C8_CatchLeavesCollection ==
    [][\A s \in Subs :
        IsCatchStep(s) => (txs' = txs /\ calls'[s] = Append(calls[s], "reject"))]_vars

\* A watch failure has been handled and the failed submission's entry is still
\* in a collection of two entries.
C8_Witness ==
    \E s \in Subs :
        /\ watch[s].state = "rejected" /\ reacted[s]
        /\ Len(txs) >= 2
        /\ idxAppendedTransaction[s] < Len(txs)
        /\ txs[idxAppendedTransaction[s] + 1] = tx[s]

(***************************************************************************)
(* C9: whenever a submission's future is completed, the removal update of  *)
(* that submission has already been published: in the calls made for it,   *)
(* every resolve or reject comes after an update that splices.             *)
(***************************************************************************)
C9_RemovalBeforeCompletion ==
    \A s \in Subs :
        \A j \in 1..Len(calls[s]) :
            calls[s][j] \in {"resolve", "reject"} =>
                \E i \in 1..(j - 1) : calls[s][i] = "update(splice)"

(***************************************************************************)
(* C10: additions and removals commute: once every add call and every      *)
(* callback has run, the collection is the same whatever order they ran    *)
(* in, so it is the collection left by the order "every add first, then    *)
(* the callbacks in the order of submission" with the same outcomes.       *)
(***************************************************************************)
AllRan == Len(tx) = MaxSubs /\ \A s \in Subs : reacted[s]

\* The collection left by the callbacks of submissions s, s+1, ... run in that
\* order on list, each submission r having recorded index r - 1.
RECURSIVE CallbacksInOrder(_, _)
CallbacksInOrder(list, s) ==
    IF s > Len(tx) THEN list
    ELSE CallbacksInOrder(IF watch[s].state = "fulfilled"
                          THEN Splice(list, LastIndex(SubSeq(tx, 1, s)))
                          ELSE list,
                          s + 1)

C10_OrderDoesNotMatter == AllRan => txs = CallbacksInOrder(tx, 1)

(***************************************************************************)
(* C11: set(list) replaces the whole collection with list in one step,     *)
(* for any list and any previous collection (it is always possible, no     *)
(* list is refused); it settles no watch, completes no future and leaves   *)
(* the positions recorded by earlier add calls as they were.               *)
(***************************************************************************)
\* The step changes the collection and is neither a call of add nor a handler:
\* it is a call of set.
IsSetStep == txs' # txs /\ tx' = tx /\ reacted' = reacted

C11_SetReplacesOnly ==
    [][/\ \A list \in SetLists : ENABLED (Set(list) /\ txs' = list)
       /\ IsSetStep =>
            /\ txs' \in SetLists
            /\ watch' = watch
            /\ deferred' = deferred
            /\ idxAppendedTransaction' = idxAppendedTransaction
            /\ calls' = calls]_vars

\* set has replaced the collection by a list that add did not build, while a
\* watch and its future are outstanding.
C11_Witness ==
    /\ Len(tx) = 1
    /\ txs = <<2, 1>>
    /\ watch[1].state = "pending"
    /\ deferred[1].state = "pending"
    /\ idxAppendedTransaction[1] = 0

(***************************************************************************)
(* C12: subscribing (reading) never changes the collection, and all        *)
(* subscribers see the same sequence of values over the time they are both *)
(* subscribed: every add, every removal on a receipt and every set hands   *)
(* the new collection to every subscriber, once and in the order of the    *)
(* mutations, no other step hands them anything, and the last value a      *)
(* subscriber was handed is the current collection.                        *)
(***************************************************************************)
Last(seq) == seq[Len(seq)]
IsPrefix(a, b) == Len(a) <= Len(b) /\ SubSeq(b, 1, Len(a)) = a
IsSuffix(a, b) == Len(a) <= Len(b) /\ SubSeq(b, Len(b) - Len(a) + 1, Len(b)) = a

C12_SubscribersSeeEveryMutation ==
    [][/\ DOMAIN observed' # DOMAIN observed =>
            UNCHANGED <<txs, tx, idxAppendedTransaction, watch, reacted, deferred, calls>>
       /\ \A k \in DOMAIN observed' : Last(observed'[k]) = txs'
       /\ \A k \in DOMAIN observed :
            /\ IsPrefix(observed[k], observed'[k])
            /\ Len(observed'[k]) <= Len(observed[k]) + 1
            /\ (IsAddStep \/ IsSetStep \/ \E s \in Subs : IsThenStep(s)) =>
                   observed'[k] = Append(observed[k], txs')
            /\ (\E s \in Subs : watch'[s] # watch[s] \/ IsCatchStep(s)) =>
                   observed'[k] = observed[k]
       /\ \A j \in DOMAIN observed', k \in DOMAIN observed' :
            IsSuffix(observed'[j], observed'[k]) \/ IsSuffix(observed'[k], observed'[j])]_vars

\* Two subscribers that subscribed at different times have both been handed the
\* collections published by an add, a removal on a receipt and a set.
C12_Witness ==
    /\ DOMAIN observed = Subscribers
    /\ Len(observed["k1"]) > Len(observed["k2"])
    /\ Len(observed["k2"]) >= 4
    /\ \E s \in Subs : reacted[s] /\ watch[s].state = "fulfilled"
    /\ \E s \in Subs : reacted[s] /\ watch[s].state = "rejected"

(***************************************************************************)
(* C13: handling the receipt of a transaction A can delete the entry of    *)
(* another transaction B while A's own entry stays: whenever the entry at  *)
(* A's recorded position is not A's (an earlier removal shifted it), the   *)
(* handler deletes the entry found there and keeps A's.  The witness is a  *)
(* reachable state in which that has happened to a B whose watch is still  *)
(* pending.                                                                *)
(***************************************************************************)
C13_StaleIndexDeletesOther ==
    [][\A s \in Subs :
        LET at == idxAppendedTransaction[s] + 1
        IN  (IsThenStep(s) /\ at <= Len(txs) /\ txs[at] # tx[s]) =>
                /\ txs' = SubSeq(txs, 1, at - 1) \o SubSeq(txs, at + 1, Len(txs))
                /\ ~Member(txs', txs[at])
                /\ Member(txs, tx[s]) => Member(txs', tx[s])]_vars

\* A's receipt has been handled and A is still in the collection, while B, whose
\* watch is still pending, is no longer in it.
C13_Witness ==
    \E a \in Subs, b \in Subs :
        /\ a # b
        /\ watch[a].state = "fulfilled" /\ reacted[a] /\ Member(txs, tx[a])
        /\ watch[b].state = "pending" /\ ~Member(txs, tx[b])

(***************************************************************************)
(* C14: each call of add starts exactly one watch and no other is ever     *)
(* started for that submission (no retry after a receipt or an error), and *)
(* no step cancels an outstanding watch: a pending watch either stays      *)
(* pending or is settled by the provider, and a settled watch never        *)
(* changes.                                                                *)
(***************************************************************************)
WatchesStarted(c) == Cardinality({i \in 1..Len(c) : c[i] = "waitForTransaction"})

C14_OneWatchPerAdd ==
    [][\A s \in 1..Len(tx') :
        /\ Len(watch') = Len(tx')
        /\ WatchesStarted(calls'[s]) = 1
        /\ calls'[s][1] = "waitForTransaction"
        /\ s \in Subs =>
            /\ watch[s].state # "pending" => watch'[s] = watch[s]
            /\ watch[s].state = "pending" =>
                   watch'[s].state \in {"pending", "fulfilled", "rejected"}
            /\ (watch[s].state = "pending" /\ watch'[s].state # "pending") =>
                   UNCHANGED <<txs, tx, idxAppendedTransaction, reacted, deferred, calls>>]_vars

\* A timeout and a receipt have been handled, set has emptied the collection and
\* a third watch is outstanding.
C14_Witness ==
    /\ \E s \in Subs : /\ reacted[s] /\ watch[s].state = "rejected"
                       /\ watch[s].value.code = TIMEOUT
    /\ \E s \in Subs : reacted[s] /\ watch[s].state = "fulfilled"
    /\ \E s \in Subs : watch[s].state = "pending"
    /\ txs = <<>>

(***************************************************************************)
(* C17: without set calls, handling a receipt shortens the collection by   *)
(* at most one entry and handling a watch error by none, and in every      *)
(* reachable state the collection is at least as long as the number of     *)
(* submissions whose watch has not completed (and not shorter than zero).  *)
(***************************************************************************)
WatchesOutstanding == Cardinality({s \in Subs : watch[s].state = "pending"})

C17_LengthCoversOutstanding ==
    [][/\ Len(txs') >= WatchesOutstanding'
       /\ Len(txs') >= 0
       /\ \A s \in Subs :
            /\ IsThenStep(s) => Len(txs') \in {Len(txs) - 1, Len(txs)}
            /\ IsCatchStep(s) => Len(txs') = Len(txs)]_vars

\* A receipt and a watch error have been handled and a watch is outstanding:
\* the collection holds the failed submission's entry and the outstanding one.
C17_Witness ==
    /\ WatchesOutstanding = 1
    /\ Len(txs) = 2
    /\ \E s \in Subs : reacted[s] /\ watch[s].state = "fulfilled"
    /\ \E s \in Subs : reacted[s] /\ watch[s].state = "rejected"

C15_EveryFutureCompletes ==
    \A s \in 1..MaxSubs :
        (s \in Subs) ~> (s \in Subs /\ deferred[s].state # "pending")

\* Every future has been completed, one by a timeout and one by a receipt, and
\* set has emptied the collection after the timeout (whose entry no handler
\* removes).
C15_Witness ==
    /\ Len(tx) >= 2
    /\ \A s \in Subs : deferred[s].state # "pending"
    /\ \E s \in Subs : deferred[s].message = MsgTimeout
    /\ \E s \in Subs : deferred[s].state = "resolved"
    /\ txs = <<>>

(***************************************************************************)
(* C16: removal by recorded position is exact in the stack-like case: if   *)
(* between the add of T and the handling of T's receipt set is not called  *)
(* and no handler deletes an entry at a position lower than T's recorded   *)
(* position, handling T's receipt removes exactly T's entry and leaves     *)
(* every other entry in place and in order.                                *)
(***************************************************************************)
\* The step deletes the entry of submission s and nothing else.
RemovesExactly(s) ==
    \E i \in 1..Len(txs) :
        /\ txs[i] = tx[s]
        /\ txs' = SubSeq(txs, 1, i - 1) \o SubSeq(txs, i + 1, Len(txs))
        /\ ~Member(txs', tx[s])

====
